---- MODULE Spec2Model ----
(***************************************************************************)
(* A model of the data pipeline of geia_streamlit_app.py: the price        *)
(* normalizer, the type normalizer, the column enricher, the cleaning      *)
(* pipeline, the review summarizer, the neighbourhood normalizer, the      *)
(* unifier and the two aggregators.                                        *)
(*                                                                         *)
(* A table (a pandas DataFrame) is a record                                *)
(*     [cols  : sequence of column labels (strings),                       *)
(*      dtype : sequence of column dtypes, aligned with cols,              *)
(*      rows  : sequence of rows, each a sequence of cells aligned         *)
(*              with cols].                                                *)
(* Cells are positional, so a table can carry the same label twice, as a   *)
(* DataFrame can after a rename.  A cell is a record [k, m, e, s]:         *)
(*     k = "na"   NaN, the missing value                                   *)
(*     k = "nat"  NaT, the missing timestamp                               *)
(*     k = "num"  the number m / 10^e  (e = 0 or m not divisible by 10)    *)
(*     k = "dt"   a timestamp: e = 0, m = yyyymmdd (a calendar date);      *)
(*                e = 1, m = nanoseconds since the epoch                   *)
(*     k = "str"  the text s, a sequence of one-character strings          *)
(*     k = "frac" the number m / e in lowest terms (e > 0): a mean         *)
(* Text is spelled character by character so that stripping, parsing and   *)
(* formatting are computed, not assumed.                                   *)
(***************************************************************************)
EXTENDS Integers, Sequences, FiniteSets, TLC

VARIABLES pc, df, level, listings, reviews, neighbourhoods, out, out2, err

vars == <<pc, df, level, listings, reviews, neighbourhoods, out, out2, err>>

(***************************************************************************)
(* Bounds of the model.                                                    *)
(***************************************************************************)
MaxCleanRows == 2
MaxAreaRows == 3
MaxReviewRows == 3
MaxListingRows == 2
MaxJoinReviewRows == 2
MaxNeighbourhoodRows == 2

(***************************************************************************)
(* Cells.                                                                  *)
(***************************************************************************)
NA == [k |-> "na", m |-> 0, e |-> 0, s |-> <<>>]

NaT == [k |-> "nat", m |-> 0, e |-> 0, s |-> <<>>]

Str(s) == [k |-> "str", m |-> 0, e |-> 0, s |-> s]

RECURSIVE Normalize(_, _)
Normalize(m, e) ==
    IF e > 0 /\ m % 10 = 0 THEN Normalize(m \div 10, e - 1) ELSE <<m, e>>

Num(m, e) ==
    LET n == Normalize(m, e)
    IN  [k |-> "num", m |-> n[1], e |-> n[2], s |-> <<>>]

IntCell(n) == Num(n, 0)

Date(yyyymmdd) == [k |-> "dt", m |-> yyyymmdd, e |-> 0, s |-> <<>>]

EpochNs(n) == [k |-> "dt", m |-> n, e |-> 1, s |-> <<>>]

IsMissing(c) == c.k \in {"na", "nat"}

RECURSIVE Pow10(_)
Pow10(e) == IF e = 0 THEN 1 ELSE 10 * Pow10(e - 1)

(***************************************************************************)
(* Text: the str methods the code uses, and Python's `in` on strings.      *)
(***************************************************************************)
Digits == <<"0", "1", "2", "3", "4", "5", "6", "7", "8", "9">>

IsDigit(ch) == \E i \in 1..10 : Digits[i] = ch

DigitVal(ch) == (CHOOSE i \in 1..10 : Digits[i] = ch) - 1

IsSpace(ch) == ch = " "

\* str.replace(old, "", regex=False) for a one-character old
RECURSIVE Remove(_, _)
Remove(s, ch) ==
    IF s = <<>> THEN <<>>
    ELSE IF Head(s) = ch THEN Remove(Tail(s), ch)
    ELSE <<Head(s)>> \o Remove(Tail(s), ch)

RECURSIVE LStrip(_)
LStrip(s) ==
    IF s # <<>> /\ IsSpace(Head(s)) THEN LStrip(Tail(s)) ELSE s

RECURSIVE RStrip(_)
RStrip(s) ==
    IF s # <<>> /\ IsSpace(s[Len(s)]) THEN RStrip(SubSeq(s, 1, Len(s) - 1)) ELSE s

\* str.strip()
Strip(s) == RStrip(LStrip(s))

\* sub in s
Contains(s, sub) ==
    \E i \in 1..(Len(s) - Len(sub) + 1) : SubSeq(s, i, i + Len(sub) - 1) = sub

AllDigits(s) == \A i \in 1..Len(s) : IsDigit(s[i])

RECURSIVE DigitsVal(_)
DigitsVal(s) ==
    IF s = <<>> THEN 0 ELSE 10 * DigitsVal(SubSeq(s, 1, Len(s) - 1)) + DigitVal(s[Len(s)])

RECURSIVE NatText(_)
NatText(n) ==
    IF n < 10 THEN <<Digits[n + 1]>> ELSE NatText(n \div 10) \o <<Digits[(n % 10) + 1]>>

\* n as exactly w digits, zero-filled on the left
RECURSIVE Padded(_, _)
Padded(n, w) ==
    IF w = 0 THEN <<>> ELSE Padded(n \div 10, w - 1) \o <<Digits[(n % 10) + 1]>>

NanText == <<"n", "a", "n">>

(***************************************************************************)
(* The parser behind pd.to_numeric for one text: [ok, isint, val].         *)
(* Accepted: an optional sign, digits, and optionally a point with more    *)
(* digits (at least one digit in all); and the text nan, read as NaN.      *)
(***************************************************************************)
Unsigned(s) ==
    IF s # <<>> /\ Head(s) \in {"-", "+"} THEN Tail(s) ELSE s

Negative(s) == s # <<>> /\ Head(s) = "-"

PointAt(s) ==
    IF \E i \in 1..Len(s) : s[i] = "." THEN CHOOSE i \in 1..Len(s) : s[i] = "." ELSE 0

ParseNumber(s) ==
    LET u == Unsigned(s)
        p == PointAt(u)
        ip == IF p = 0 THEN u ELSE SubSeq(u, 1, p - 1)
        fp == IF p = 0 THEN <<>> ELSE SubSeq(u, p + 1, Len(u))
        sign == IF Negative(s) THEN -1 ELSE 1
    IN  IF s = NanText THEN [ok |-> TRUE, isint |-> FALSE, val |-> NA]
        ELSE IF AllDigits(ip) /\ AllDigits(fp) /\ Len(ip) + Len(fp) > 0
        THEN [ok |-> TRUE, isint |-> (p = 0),
              val |-> Num(sign * DigitsVal(ip \o fp), Len(fp))]
        ELSE [ok |-> FALSE, isint |-> FALSE, val |-> NA]

(***************************************************************************)
(* str(x) for the cells of a column of the given dtype (Series.astype(str)) *)
(***************************************************************************)
Abs(n) == IF n < 0 THEN -n ELSE n

SignText(n) == IF n < 0 THEN <<"-">> ELSE <<>>

FormatInt(c) == SignText(c.m) \o NatText(Abs(c.m))

FormatFloat(c) ==
    LET a == Abs(c.m)
        p == Pow10(c.e)
    IN  SignText(c.m) \o NatText(a \div p) \o <<".">>
          \o (IF c.e = 0 THEN <<"0">> ELSE Padded(a % p, c.e))

FormatDate(c) ==
    Padded(c.m \div 10000, 4) \o <<"-">> \o Padded((c.m \div 100) % 100, 2)
      \o <<"-">> \o Padded(c.m % 100, 2)

astype_str(c, dt) ==
    CASE c.k = "str" -> c.s
      [] c.k = "na" -> NanText
      [] c.k = "nat" -> <<"N", "a", "T">>
      [] c.k = "num" /\ dt = "int64" -> FormatInt(c)
      [] c.k = "num" /\ dt # "int64" -> FormatFloat(c)
      [] c.k = "dt" /\ c.e = 0 -> FormatDate(c)

(***************************************************************************)
(* Tables.                                                                 *)
(***************************************************************************)
\* pd.DataFrame()
EmptyFrame == [cols |-> <<>>, dtype |-> <<>>, rows |-> <<>>]

NRows(t) == Len(t.rows)

\* c in t.columns
HasCol(t, c) == \E i \in 1..Len(t.cols) : t.cols[i] = c

Positions(t, c) == {i \in 1..Len(t.cols) : t.cols[i] = c}

\* the position of a label the table carries once
ColIdx(t, c) == CHOOSE i \in 1..Len(t.cols) : t.cols[i] = c

\* t[c], the cells of the column
Column(t, c) == [r \in 1..NRows(t) |-> t.rows[r][ColIdx(t, c)]]

DtypeOf(t, c) == t.dtype[ColIdx(t, c)]

\* t[c] = cells: in place when the label exists, appended otherwise
SetColumn(t, c, cells, dt) ==
    IF HasCol(t, c)
    THEN [cols |-> t.cols,
          dtype |-> [t.dtype EXCEPT ![ColIdx(t, c)] = dt],
          rows |-> [r \in 1..NRows(t) |-> [t.rows[r] EXCEPT ![ColIdx(t, c)] = cells[r]]]]
    ELSE [cols |-> Append(t.cols, c),
          dtype |-> Append(t.dtype, dt),
          rows |-> [r \in 1..NRows(t) |-> Append(t.rows[r], cells[r])]]

(***************************************************************************)
(* pd.to_numeric and pd.to_datetime on a column, as [cells, dtype].        *)
(***************************************************************************)
\* one cell of an object column through the numeric parser
ParseCell(c) ==
    IF c.k = "str" THEN ParseNumber(c.s)
    ELSE [ok |-> (c.k = "na"), isint |-> FALSE, val |-> c]

NumericDtype(parsed) ==
    IF \A r \in DOMAIN parsed : parsed[r].ok /\ parsed[r].isint THEN "int64" ELSE "float64"

\* pd.to_numeric(col, errors="coerce"): a text that does not parse becomes NaN
to_numeric_coerce(cells, dt) ==
    IF dt \in {"int64", "float64"} THEN [cells |-> cells, dtype |-> dt]
    ELSE LET parsed == [r \in DOMAIN cells |-> ParseCell(cells[r])]
         IN  [cells |-> [r \in DOMAIN cells |-> IF parsed[r].ok THEN parsed[r].val ELSE NA],
              dtype |-> NumericDtype(parsed)]

\* pd.to_numeric(col, errors="ignore"): one text that does not parse leaves the
\* whole column as it was
to_numeric_ignore(cells, dt) ==
    IF dt \in {"int64", "float64"} THEN [cells |-> cells, dtype |-> dt]
    ELSE LET parsed == [r \in DOMAIN cells |-> ParseCell(cells[r])]
         IN  IF \A r \in DOMAIN cells : parsed[r].ok
             THEN [cells |-> [r \in DOMAIN cells |-> parsed[r].val],
                   dtype |-> NumericDtype(parsed)]
             ELSE [cells |-> cells, dtype |-> dt]

\* the timestamp parser for one text: yyyy-mm-dd
ParseDate(s) ==
    IF /\ Len(s) = 10
       /\ s[5] = "-" /\ s[8] = "-"
       /\ AllDigits(SubSeq(s, 1, 4)) /\ AllDigits(SubSeq(s, 6, 7))
       /\ AllDigits(SubSeq(s, 9, 10))
       /\ DigitsVal(SubSeq(s, 6, 7)) \in 1..12
       /\ DigitsVal(SubSeq(s, 9, 10)) \in 1..31
    THEN Date(DigitsVal(SubSeq(s, 1, 4)) * 10000 + DigitsVal(SubSeq(s, 6, 7)) * 100
              + DigitsVal(SubSeq(s, 9, 10)))
    ELSE NaT

\* a number read as nanoseconds since the epoch, its fraction cut
Trunc(c) == IF c.m < 0 THEN -(Abs(c.m) \div Pow10(c.e)) ELSE c.m \div Pow10(c.e)

DatetimeCell(c) ==
    CASE c.k = "str" -> ParseDate(c.s)
      [] c.k = "num" -> EpochNs(Trunc(c))
      [] c.k = "dt" -> c
      [] OTHER -> NaT

\* pd.to_datetime(col, errors="coerce")
to_datetime_coerce(cells, dt) ==
    [cells |-> [r \in DOMAIN cells |-> DatetimeCell(cells[r])], dtype |-> "datetime64"]

(***************************************************************************)
(* The spelling of the column labels the model uses, for `"date" in col`.  *)
(***************************************************************************)
Spelling ==
    [c \in {"price", "precio", "price_m2", "availability_365", "host_update",
            "fecha_alta", "name", "precio_noche", "ocupacion_estimada"} |->
        CASE c = "price" -> <<"p", "r", "i", "c", "e">>
          [] c = "precio" -> <<"p", "r", "e", "c", "i", "o">>
          [] c = "price_m2" -> <<"p", "r", "i", "c", "e", "_", "m", "2">>
          [] c = "availability_365" ->
               <<"a", "v", "a", "i", "l", "a", "b", "i", "l", "i", "t", "y", "_", "3", "6", "5">>
          [] c = "host_update" -> <<"h", "o", "s", "t", "_", "u", "p", "d", "a", "t", "e">>
          [] c = "fecha_alta" -> <<"f", "e", "c", "h", "a", "_", "a", "l", "t", "a">>
          [] c = "name" -> <<"n", "a", "m", "e">>
          [] c = "precio_noche" ->
               <<"p", "r", "e", "c", "i", "o", "_", "n", "o", "c", "h", "e">>
          [] c = "ocupacion_estimada" ->
               <<"o", "c", "u", "p", "a", "c", "i", "o", "n", "_",
                 "e", "s", "t", "i", "m", "a", "d", "a">>]

\* "date" in col or "fecha" in col
IsDateLabel(c) ==
    \/ Contains(Spelling[c], <<"d", "a", "t", "e">>)
    \/ Contains(Spelling[c], <<"f", "e", "c", "h", "a">>)

(***************************************************************************)
(* standardize_prices                                                      *)
(***************************************************************************)
price_columns == <<"price", "price_per_night", "precio", "price_m2">>

\* astype(str), the three replacements and strip, for one cell
PriceText(c, dt) ==
    Str(Strip(Remove(Remove(Remove(astype_str(c, dt), "$"), "€"), ",")))

StandardizeColumn(t, c) ==
    IF HasCol(t, c)
    THEN LET texts == [r \in 1..NRows(t) |-> PriceText(Column(t, c)[r], DtypeOf(t, c))]
             num == to_numeric_coerce(texts, "object")
         IN  SetColumn(t, c, num.cells, num.dtype)
    ELSE t

RECURSIVE StandardizeFrom(_, _)
StandardizeFrom(t, i) ==
    IF i > Len(price_columns) THEN t
    ELSE StandardizeFrom(StandardizeColumn(t, price_columns[i]), i + 1)

standardize_prices(t) == StandardizeFrom(t, 1)

(***************************************************************************)
(* normalize_types                                                         *)
(***************************************************************************)
NormalizeColumn(t, c) ==
    LET dated == IF IsDateLabel(c)
                 THEN LET d == to_datetime_coerce(Column(t, c), DtypeOf(t, c))
                      IN  SetColumn(t, c, d.cells, d.dtype)
                 ELSE t
    IN  IF DtypeOf(dated, c) = "object"
        THEN LET n == to_numeric_ignore(Column(dated, c), "object")
             IN  SetColumn(dated, c, n.cells, n.dtype)
        ELSE dated

RECURSIVE NormalizeFrom(_, _)
NormalizeFrom(t, i) ==
    IF i > Len(t.cols) THEN t ELSE NormalizeFrom(NormalizeColumn(t, t.cols[i]), i + 1)

normalize_types(t) == NormalizeFrom(t, 1)

(***************************************************************************)
(* add_basic_columns                                                       *)
(***************************************************************************)
DaysInYear == 365

\* 365 - x on a numeric cell, NaN staying NaN
Occupancy(c) ==
    IF c.k = "num" THEN Num(DaysInYear * Pow10(c.e) - c.m, c.e) ELSE NA

WithPrecioNoche(t) ==
    IF HasCol(t, "price")
    THEN LET n == to_numeric_coerce(Column(t, "price"), DtypeOf(t, "price"))
         IN  SetColumn(t, "precio_noche", n.cells, n.dtype)
    ELSE t

WithOcupacion(t) ==
    IF HasCol(t, "availability_365")
    THEN LET n == to_numeric_coerce(Column(t, "availability_365"),
                                    DtypeOf(t, "availability_365"))
         IN  SetColumn(t, "ocupacion_estimada",
                       [r \in DOMAIN n.cells |-> Occupancy(n.cells[r])], n.dtype)
    ELSE t

add_basic_columns(t) == WithOcupacion(WithPrecioNoche(t))

(***************************************************************************)
(* clean_dataset                                                           *)
(***************************************************************************)
\* DataFrame.drop_duplicates(): a row equal to an earlier one is dropped
RECURSIVE DedupRows(_, _)
DedupRows(rows, kept) ==
    IF rows = <<>> THEN kept
    ELSE IF \E i \in 1..Len(kept) : kept[i] = Head(rows)
    THEN DedupRows(Tail(rows), kept)
    ELSE DedupRows(Tail(rows), Append(kept, Head(rows)))

drop_duplicates(t) == [t EXCEPT !.rows = DedupRows(t.rows, <<>>)]

\* the deduplication done first, on the raw rows
clean_dataset_dedup_first(t) ==
    add_basic_columns(normalize_types(standardize_prices(drop_duplicates(t))))

\* the enricher run before the price normalizer
clean_dataset_enrich_first(t) ==
    drop_duplicates(normalize_types(standardize_prices(add_basic_columns(t))))

clean_dataset(t) ==
    drop_duplicates(add_basic_columns(normalize_types(standardize_prices(t))))

(***************************************************************************)
(* Input tables, as pd.read_csv yields them: distinct labels, and columns  *)
(* that are int64, float64 (numbers and NaN) or object (texts and NaN).    *)
(***************************************************************************)
\* [raw, want]: a raw price and the number the price normalizer makes of it
PriceSamples ==
    { [raw |-> Str(<<"$", "1", ",", "2", "0", "0", ".", "5", "0">>), want |-> Num(12005, 1)],
      [raw |-> Str(<<"n", "/", "a">>), want |-> NA],
      [raw |-> Str(<<" ", "€", "7", " ">>), want |-> IntCell(7)],
      [raw |-> Str(<<"7">>), want |-> IntCell(7)],
      [raw |-> NA, want |-> NA],
      [raw |-> Num(12005, 1), want |-> Num(12005, 1)],
      [raw |-> IntCell(7), want |-> IntCell(7)],
      [raw |-> IntCell(1200), want |-> IntCell(1200)] }

\* the number the price normalizer is to make of a raw price
Want(raw) == (CHOOSE p \in PriceSamples : p.raw = raw).want

RawPrices(kind) == {p.raw : p \in {q \in PriceSamples : q.raw.k \in kind}}

\* a column an input table may carry: its label, its dtype, its cells' domain
Kind(c, dt, dom) == [c |-> c, dt |-> dt, dom |-> dom]

ColumnKinds ==
    { [c |-> "price", dt |-> "object", dom |-> RawPrices({"str", "na"})],
      [c |-> "price", dt |-> "float64", dom |-> RawPrices({"num", "na"})],
      [c |-> "price", dt |-> "int64", dom |-> {IntCell(7), IntCell(1200)}],
      [c |-> "price_m2", dt |-> "object", dom |-> {Str(<<"$", "7">>), Str(<<"7", ".", "0">>)}],
      [c |-> "availability_365", dt |-> "int64", dom |-> {IntCell(40), IntCell(365)}],
      [c |-> "availability_365", dt |-> "float64", dom |-> {IntCell(40), NA}],
      [c |-> "availability_365", dt |-> "object", dom |-> {Str(<<"4", "0">>), Str(<<"x">>)}],
      [c |-> "fecha_alta", dt |-> "object",
       dom |-> {Str(<<"2", "0", "2", "0", "-", "0", "1", "-", "0", "2">>), Str(<<"x">>)}],
      [c |-> "host_update", dt |-> "int64", dom |-> {IntCell(5)}],
      [c |-> "name", dt |-> "object", dom |-> {Str(<<"1", "2">>), Str(<<"a", "b">>)}],
      [c |-> "precio_noche", dt |-> "float64", dom |-> {Num(5, 1), NA}] }

Table1(k, a) ==
    [cols |-> <<k.c>>, dtype |-> <<k.dt>>, rows |-> [r \in DOMAIN a |-> <<a[r]>>]]

Table2(k1, k2, a, b) ==
    [cols |-> <<k1.c, k2.c>>, dtype |-> <<k1.dt, k2.dt>>,
     rows |-> [r \in DOMAIN a |-> <<a[r], b[r]>>]]

Table3(k1, k2, k3, a, b, c) ==
    [cols |-> <<k1.c, k2.c, k3.c>>, dtype |-> <<k1.dt, k2.dt, k3.dt>>,
     rows |-> [r \in DOMAIN a |-> <<a[r], b[r], c[r]>>]]

\* t is a table of n rows with a column of kind k
OneColumn(t, k, n) == \E a \in [1..n -> k.dom] : t = Table1(k, a)

\* t is a table of n rows with a column of kind k1 and one of kind k2
TwoColumns(t, k1, k2, n) ==
    \E a \in [1..n -> k1.dom], b \in [1..n -> k2.dom] : t = Table2(k1, k2, a, b)

ThreeColumns(t, k1, k2, k3, n) ==
    \E a \in [1..n -> k1.dom], b \in [1..n -> k2.dom], c \in [1..n -> k3.dom] :
       t = Table3(k1, k2, k3, a, b, c)

\* t is a table of two columns of different labels
CleanInput(t) ==
    \E n \in 0..MaxCleanRows, k1 \in ColumnKinds, k2 \in ColumnKinds :
       k1.c # k2.c /\ TwoColumns(t, k1, k2, n)

(***************************************************************************)
(* The cleaning pipeline applied to a table, and applied again to its own  *)
(* output.                                                                 *)
(***************************************************************************)
Idle == [cols |-> <<>>, dtype |-> <<>>, rows |-> <<>>]

InitClean ==
    /\ pc = "start"
    /\ CleanInput(df)
    /\ level = ""
    /\ listings = Idle /\ reviews = Idle /\ neighbourhoods = Idle
    /\ out = Idle /\ out2 = Idle
    /\ err = ""

Clean ==
    /\ pc = "start"
    /\ out' = clean_dataset(df)
    /\ pc' = "cleaned"
    /\ UNCHANGED <<df, level, listings, reviews, neighbourhoods, out2, err>>

CleanAgain ==
    /\ pc = "cleaned"
    /\ out2' = clean_dataset(out)
    /\ pc' = "recleaned"
    /\ UNCHANGED <<df, level, listings, reviews, neighbourhoods, out, err>>

NextClean == Clean \/ CleanAgain

SpecClean == InitClean /\ [][NextClean]_vars

(***************************************************************************)
(* C7: clean_dataset is idempotent: cleaning the cleaned table gives the   *)
(* same labels, dtypes, rows and cells (the missing ones and the derived   *)
(* precio_noche and ocupacion_estimada included), and the second pass's    *)
(* deduplication finds no row to remove.                                   *)
(***************************************************************************)
CleanIdempotent ==
    pc = "recleaned" =>
        /\ out2 = out
        /\ LET again == add_basic_columns(normalize_types(standardize_prices(out)))
           IN  NRows(drop_duplicates(again)) = NRows(again)

\* a table whose texts were changed by the first pass and whose rows the
\* first pass deduplicated has been cleaned twice
CleanIdempotentWitness ==
    /\ pc = "recleaned"
    /\ HasCol(df, "price") /\ DtypeOf(df, "price") = "object"
    /\ NRows(out) < NRows(df)
    /\ NRows(out) > 0

(***************************************************************************)
(* C9: the enricher runs on the normalized price: in clean_dataset's       *)
(* output precio_noche is, row by row, the numeric price (so it is missing *)
(* exactly when the price is), and every input row's raw price shows up as *)
(* the number it denotes ("$1,200.50" as 1200.5, "n/a" as missing).        *)
(***************************************************************************)
PrecioNocheIsNormalizedPrice ==
    (pc = "cleaned" /\ HasCol(df, "price")) =>
        /\ HasCol(out, "precio_noche")
        /\ \A r \in 1..NRows(out) :
              /\ Column(out, "precio_noche")[r] = Column(out, "price")[r]
              /\ IsMissing(Column(out, "precio_noche")[r]) <=> IsMissing(Column(out, "price")[r])
        /\ \A i \in 1..NRows(df) :
              \E r \in 1..NRows(out) :
                 Column(out, "precio_noche")[r] = Want(Column(df, "price")[i])

\* a priced text with a currency sign and a thousands separator was cleaned
PrecioNocheWitness ==
    /\ pc = "cleaned"
    /\ HasCol(df, "price")
    /\ \E i \in 1..NRows(df) :
          Column(df, "price")[i] = Str(<<"$", "1", ",", "2", "0", "0", ".", "5", "0">>)
    /\ \E r \in 1..NRows(out) : Column(out, "precio_noche")[r] = Num(12005, 1)
    /\ \E r \in 1..NRows(out) : Column(out, "precio_noche")[r] = NA

(***************************************************************************)
(* price_by_area and occupancy_by_area.  A ranking row is <<area, mean>>,  *)
(* the mean held exactly as [sum, n]: the sum of the group's metric cells  *)
(* and their count.                                                        *)
(***************************************************************************)
\* the supported levels with one more let through
LevelsWithCity == {"district", "neighbourhood", "city"}

Levels == {"district", "neighbourhood"}

Max(a, b) == IF a > b THEN a ELSE b

\* the mantissa of a number written with e decimals (e >= c.e)
Scaled(c, e) == c.m * Pow10(e - c.e)

AddNum(a, b) ==
    LET e == Max(a.e, b.e) IN Num(Scaled(a, e) + Scaled(b, e), e)

RECURSIVE SumCells(_, _, _)
SumCells(t, i, rs) ==
    IF rs = {} THEN IntCell(0)
    ELSE LET r == CHOOSE x \in rs : TRUE
         IN  AddNum(t.rows[r][i], SumCells(t, i, rs \ {r}))

\* mean a >= mean b
MeanGE(a, b) ==
    LET e == Max(a.sum.e, b.sum.e)
    IN  Scaled(a.sum, e) * b.n >= Scaled(b.sum, e) * a.n

\* dropna() looking at the area column only
dropna_level_only(t, lv, metric) ==
    {r \in 1..NRows(t) : ~IsMissing(t.rows[r][ColIdx(t, lv)])}

\* df[[lv, metric]].dropna(): the rows with both cells present
dropna(t, lv, metric) ==
    {r \in 1..NRows(t) : /\ ~IsMissing(t.rows[r][ColIdx(t, lv)])
                         /\ ~IsMissing(t.rows[r][ColIdx(t, metric)])}

\* .groupby(lv).agg(mean).reset_index(): one row per area among the kept rows
GroupMeans(t, lv, metric) ==
    LET kept == dropna(t, lv, metric)
        li == ColIdx(t, lv)
        mi == ColIdx(t, metric)
        group(a) == {r \in kept : t.rows[r][li] = a}
    IN  { <<a, [sum |-> SumCells(t, mi, group(a)), n |-> Cardinality(group(a))]>> :
          a \in {t.rows[r][li] : r \in kept} }

\* the listings of a set of rows, in every order
Orderings(S) ==
    {q \in [1..Cardinality(S) -> S] : \A i, j \in DOMAIN q : i # j => q[i] # q[j]}

\* .sort_values(mean, ascending=True): the order the wrong flag would give
sort_values_ascending(S) ==
    {q \in Orderings(S) : \A i \in 1..(Len(q) - 1) : MeanGE(q[i + 1][2], q[i][2])}

\* .sort_values(mean, ascending=False): the orders of the rows in which the
\* means do not increase; rows of equal mean may come in any order
sort_values_descending(S) ==
    {q \in Orderings(S) : \A i \in 1..(Len(q) - 1) : MeanGE(q[i][2], q[i + 1][2])}

\* the aggregator selecting its two columns before it looks for the level column
by_area_metric_first(t, lv, metric, mean) ==
    IF lv \notin Levels THEN [err |-> "ValueError", res |-> {Idle}]
    ELSE IF ~HasCol(t, metric) THEN [err |-> "KeyError", res |-> {Idle}]
    ELSE IF ~HasCol(t, lv) THEN [err |-> "", res |-> {EmptyFrame}]
    ELSE [err |-> "",
          res |-> { [cols |-> <<lv, mean>>, dtype |-> <<DtypeOf(t, lv), "float64">>,
                     rows |-> q] :
                    q \in sort_values_descending(GroupMeans(t, lv, metric)) }]

\* the outcomes of an aggregator, [err, res]: the error raised, if any, and the
\* tables it may return (df[[lv, metric]] raises KeyError for an absent label)
by_area(t, lv, metric, mean) ==
    IF lv \notin Levels THEN [err |-> "ValueError", res |-> {Idle}]
    ELSE IF ~HasCol(t, lv) THEN [err |-> "", res |-> {EmptyFrame}]
    ELSE IF ~HasCol(t, metric) THEN [err |-> "KeyError", res |-> {Idle}]
    ELSE [err |-> "",
          res |-> { [cols |-> <<lv, mean>>, dtype |-> <<DtypeOf(t, lv), "float64">>,
                     rows |-> q] :
                    q \in sort_values_descending(GroupMeans(t, lv, metric)) }]

price_by_area(t, lv) == by_area(t, lv, "precio_noche", "precio_medio")

occupancy_by_area(t, lv) == by_area(t, lv, "ocupacion_estimada", "ocupacion_media")

(***************************************************************************)
(* The aggregators called on a table with a level.                         *)
(***************************************************************************)
AreaA == Str(<<"A">>)

AreaB == Str(<<"B">>)

AreaKinds ==
    { [c |-> "district", dt |-> "object", dom |-> {AreaA, AreaB, NA}],
      [c |-> "neighbourhood", dt |-> "object", dom |-> {AreaA, NA}],
      [c |-> "city", dt |-> "object", dom |-> {AreaA}] }

MetricKinds ==
    { [c |-> "precio_noche", dt |-> "float64", dom |-> {IntCell(1), Num(25, 1), NA}],
      [c |-> "ocupacion_estimada", dt |-> "float64", dom |-> {IntCell(-1), IntCell(3), NA}] }

\* t is a table with an area column, a metric column, both, two area columns,
\* or an area column and both metrics; or the table without columns
AreaInput(t) ==
    \E n \in 0..MaxAreaRows :
       \/ t = EmptyFrame
       \/ \E k \in AreaKinds \cup MetricKinds : OneColumn(t, k, n)
       \/ \E k1 \in AreaKinds, k2 \in MetricKinds : TwoColumns(t, k1, k2, n)
       \/ TwoColumns(t, Kind("city", "object", {AreaA}),
                     Kind("district", "object", {AreaA, AreaB, NA}), n)
       \/ ThreeColumns(t, Kind("district", "object", {AreaA, AreaB, NA}),
                       Kind("precio_noche", "float64", {IntCell(1), NA}),
                       Kind("ocupacion_estimada", "float64", {IntCell(3), NA}), n)

InitArea ==
    /\ pc = "start"
    /\ AreaInput(df)
    /\ level \in {"district", "neighbourhood", "city"}
    /\ listings = Idle /\ reviews = Idle /\ neighbourhoods = Idle
    /\ out = Idle /\ out2 = Idle
    /\ err = ""

PriceByArea ==
    /\ pc = "start"
    /\ LET o == price_by_area(df, level)
       IN  /\ err' = o.err
           /\ out' \in o.res
    /\ pc' = "price_by_area"
    /\ UNCHANGED <<df, level, listings, reviews, neighbourhoods, out2>>

OccupancyByArea ==
    /\ pc = "start"
    /\ LET o == occupancy_by_area(df, level)
       IN  /\ err' = o.err
           /\ out' \in o.res
    /\ pc' = "occupancy_by_area"
    /\ UNCHANGED <<df, level, listings, reviews, neighbourhoods, out2>>

NextArea == PriceByArea \/ OccupancyByArea

SpecArea == InitArea /\ [][NextArea]_vars

Called == pc \in {"price_by_area", "occupancy_by_area"}

\* the metric column of the aggregator that was called
Metric == IF pc = "price_by_area" THEN "precio_noche" ELSE "ocupacion_estimada"

Returned == Called /\ err = ""

(***************************************************************************)
(* C2: the aggregators raise ValueError for every level outside            *)
(* {district, neighbourhood}, whatever the table holds, and never for a    *)
(* level inside it.                                                        *)
(***************************************************************************)
ValueErrorIffBadLevel ==
    Called => (err = "ValueError" <=> level \notin {"district", "neighbourhood"})

\* an unsupported level was refused although the table has a column of that name
ValueErrorWitness ==
    /\ Called /\ level = "city" /\ HasCol(df, "city") /\ NRows(df) > 0
    /\ err = "ValueError"

(***************************************************************************)
(* C3: for a supported level the table has no column for, the aggregators  *)
(* return an empty table and raise nothing, with or without the metric     *)
(* column.                                                                 *)
(***************************************************************************)
AbsentLevelGivesEmpty ==
    (Called /\ level \in {"district", "neighbourhood"} /\ ~HasCol(df, level)) =>
        /\ err = ""
        /\ out.cols = <<>> /\ out.rows = <<>>

\* the level column was absent, the metric column too
AbsentLevelWitness ==
    /\ Called /\ level = "neighbourhood" /\ ~HasCol(df, level)
    /\ ~HasCol(df, Metric) /\ NRows(df) > 0
    /\ out.rows = <<>>

(***************************************************************************)
(* C4: with the level column present and the metric column absent the      *)
(* aggregators complete without raising.                                   *)
(***************************************************************************)
AbsentMetricNeverRaises ==
    (Called /\ level \in {"district", "neighbourhood"} /\ HasCol(df, level)
       /\ ~HasCol(df, Metric)) => err = ""

(***************************************************************************)
(* C5: with the level and the metric column present, the returned table    *)
(* holds each area at most once, and of two consecutive rows the earlier   *)
(* mean is greater than or equal to the later.                             *)
(***************************************************************************)
RankingSortedAndDistinct ==
    (Called /\ level \in {"district", "neighbourhood"} /\ HasCol(df, level)
       /\ HasCol(df, Metric)) =>
        /\ err = ""
        /\ \A i, j \in 1..NRows(out) : i # j => out.rows[i][1] # out.rows[j][1]
        /\ \A i \in 1..(NRows(out) - 1) :
              LET a == out.rows[i][2]
                  b == out.rows[i + 1][2]
                  e == Max(a.sum.e, b.sum.e)
              IN  a.sum.m * Pow10(e - a.sum.e) * b.n >= b.sum.m * Pow10(e - b.sum.e) * a.n

\* two areas of different means were ranked
RankingWitness ==
    /\ Returned /\ NRows(out) = 2
    /\ out.rows[1][2].sum # out.rows[2][2].sum

(***************************************************************************)
(* C6: the areas of the ranking are exactly the present area values with   *)
(* at least one row whose metric is present, and the mean of an area is    *)
(* taken over exactly its rows whose metric is present.                    *)
(***************************************************************************)
MetricRows(a) ==
    {r \in 1..NRows(df) : /\ Column(df, level)[r] = a
                          /\ ~IsMissing(Column(df, Metric)[r])}

RankingExcludesMissing ==
    (Returned /\ HasCol(df, level)) =>
        /\ {out.rows[i][1] : i \in 1..NRows(out)}
             = {a \in {Column(df, level)[r] : r \in 1..NRows(df)} :
                  ~IsMissing(a) /\ MetricRows(a) # {}}
        /\ \A i \in 1..NRows(out) :
              LET rs == MetricRows(out.rows[i][1])
              IN  /\ out.rows[i][2].n = Cardinality(rs)
                  /\ out.rows[i][2].sum = SumCells(df, ColIdx(df, Metric), rs)

\* an area kept with a missing metric in one of its rows, next to rows
\* without an area
RankingExcludesWitness ==
    /\ Returned /\ HasCol(df, level) /\ NRows(out) > 0
    /\ \E r \in 1..NRows(df) :
          Column(df, level)[r] = out.rows[1][1] /\ IsMissing(Column(df, Metric)[r])
    /\ \E r \in 1..NRows(df) : IsMissing(Column(df, level)[r])

(***************************************************************************)
(* _prepare_reviews                                                        *)
(***************************************************************************)
RECURSIVE Gcd(_, _)
Gcd(a, b) == IF b = 0 THEN a ELSE Gcd(b, a % b)

\* total / n, exactly
Frac(total, n) ==
    LET g == Gcd(Abs(total), n)
    IN  [k |-> "frac", m |-> total \div g, e |-> n \div g, s |-> <<>>]

\* .agg("sum") in the place of .agg("mean")
SumOf(t, i, rs) ==
    LET present == {r \in rs : ~IsMissing(t.rows[r][i])}
    IN  IF present = {} THEN NA ELSE Frac(SumCells(t, i, present).m, 1)

\* Series.mean(): the mean of the cells that are present, NaN when none is
MeanOf(t, i, rs) ==
    LET present == {r \in rs : ~IsMissing(t.rows[r][i])}
    IN  IF present = {} THEN NA
        ELSE Frac(SumCells(t, i, present).m, Cardinality(present))

\* the integers of a set in ascending order
RECURSIVE Ascending(_)
Ascending(S) ==
    IF S = {} THEN <<>>
    ELSE LET lo == CHOOSE x \in S : \A y \in S : x <= y
         IN  <<lo>> \o Ascending(S \ {lo})

\* the reviews handed on row by row, not grouped
UngroupedRatings(t) ==
    [cols |-> <<"listing_id", "rating">>,
     dtype |-> <<DtypeOf(t, "listing_id"), "float64">>,
     rows |-> [r \in 1..NRows(t) |->
                 <<Column(t, "listing_id")[r], Column(t, "rating")[r]>>]]

\* reviews.groupby("listing_id").agg({"rating": "mean"}).reset_index(): the
\* groups are the present listing ids, in ascending order
GroupRatings(t) ==
    LET ki == ColIdx(t, "listing_id")
        ri == ColIdx(t, "rating")
        keys == Ascending({t.rows[r][ki].m : r \in {x \in 1..NRows(t) : ~IsMissing(t.rows[x][ki])}})
    IN  [cols |-> <<"listing_id", "rating">>,
         dtype |-> <<t.dtype[ki], "float64">>,
         rows |-> [g \in 1..Len(keys) |->
                     <<IntCell(keys[g]),
                       MeanOf(t, ri, {r \in 1..NRows(t) : t.rows[r][ki] = IntCell(keys[g])})>>]]

_prepare_reviews(t) ==
    IF ~HasCol(t, "listing_id") THEN EmptyFrame
    ELSE IF ~HasCol(t, "rating") THEN EmptyFrame
    ELSE GroupRatings(t)

(***************************************************************************)
(* The review summarizer called on a reviews table.                        *)
(***************************************************************************)
ReviewKinds ==
    { [c |-> "listing_id", dt |-> "float64", dom |-> {IntCell(1), IntCell(2), NA}],
      [c |-> "rating", dt |-> "float64", dom |-> {IntCell(3), IntCell(4), IntCell(5), NA}],
      [c |-> "comments", dt |-> "object", dom |-> {Str(<<"o", "k">>)}] }

ReviewInput(t) ==
    \E n \in 0..MaxReviewRows :
       \/ t = EmptyFrame
       \/ \E k \in ReviewKinds : OneColumn(t, k, n)
       \/ \E k1 \in ReviewKinds, k2 \in ReviewKinds : k1.c # k2.c /\ TwoColumns(t, k1, k2, n)

InitReviews ==
    /\ pc = "start"
    /\ ReviewInput(reviews)
    /\ df = Idle /\ level = ""
    /\ listings = Idle /\ neighbourhoods = Idle
    /\ out = Idle /\ out2 = Idle
    /\ err = ""

PrepareReviews ==
    /\ pc = "start"
    /\ out' = _prepare_reviews(reviews)
    /\ pc' = "prepared"
    /\ UNCHANGED <<df, level, listings, reviews, neighbourhoods, out2, err>>

NextReviews == PrepareReviews

SpecReviews == InitReviews /\ [][NextReviews]_vars

(***************************************************************************)
(* C8: the summary is empty when reviews has no listing_id or no rating    *)
(* column; otherwise it has exactly one row per distinct listing id in     *)
(* reviews, with the mean of that listing's ratings (4 and 5 for listing   *)
(* 1, 3 for listing 2: 4.5 and 3).                                         *)
(***************************************************************************)
RatingsOf(id) ==
    {r \in 1..NRows(reviews) : /\ Column(reviews, "listing_id")[r] = id
                               /\ Column(reviews, "rating")[r].k = "num"}

RECURSIVE Total(_)
Total(rs) ==
    IF rs = {} THEN 0
    ELSE LET r == CHOOSE x \in rs : TRUE
         IN  Column(reviews, "rating")[r].m + Total(rs \ {r})

ReviewSummaryIsMeanPerListing ==
    pc = "prepared" =>
        IF ~HasCol(reviews, "listing_id") \/ ~HasCol(reviews, "rating")
        THEN out.cols = <<>> /\ out.rows = <<>>
        ELSE /\ out.cols = <<"listing_id", "rating">>
             /\ {out.rows[g][1] : g \in 1..NRows(out)}
                  = {Column(reviews, "listing_id")[r] : r \in 1..NRows(reviews)} \ {NA}
             /\ \A g, h \in 1..NRows(out) : g # h => out.rows[g][1] # out.rows[h][1]
             /\ \A g \in 1..NRows(out) :
                   LET rs == RatingsOf(out.rows[g][1])
                   IN  IF rs = {} THEN out.rows[g][2] = NA
                       ELSE /\ out.rows[g][2].k = "frac"
                            /\ out.rows[g][2].m * Cardinality(rs) = Total(rs) * out.rows[g][2].e

\* the spec's scenario: ratings 4 and 5 for listing 1, 3 for listing 2
ReviewSummaryWitness ==
    /\ pc = "prepared"
    /\ reviews.cols = <<"listing_id", "rating">>
    /\ reviews.rows = << <<IntCell(1), IntCell(4)>>, <<IntCell(1), IntCell(5)>>,
                         <<IntCell(2), IntCell(3)>> >>
    /\ out.rows = << <<IntCell(1), Frac(9, 2)>>, <<IntCell(2), Frac(3, 1)>> >>

(***************************************************************************)
(* _normalize_neighbourhoods: DataFrame.rename on the labels.              *)
(***************************************************************************)
rename(t, old, new) ==
    [t EXCEPT !.cols = [i \in 1..Len(t.cols) |-> IF t.cols[i] = old THEN new ELSE t.cols[i]]]

_normalize_neighbourhoods(l, n) ==
    [listings_norm |->
        IF HasCol(l, "neighbourhood_cleansed")
        THEN rename(l, "neighbourhood_cleansed", "neighbourhood") ELSE l,
     neighbourhoods_norm |->
        IF HasCol(n, "neighbourhood_group")
        THEN rename(n, "neighbourhood_group", "district") ELSE n]

(***************************************************************************)
(* DataFrame.merge(how="left").                                            *)
(***************************************************************************)
\* s without its i-th element
Without(s, i) == SubSeq(s, 1, i - 1) \o SubSeq(s, i + 1, Len(s))

RECURSIVE Concat(_)
Concat(ss) == IF ss = <<>> THEN <<>> ELSE Head(ss) \o Concat(Tail(ss))

\* the right rows whose key equals the left row's, in order
Matches(lrow, rrows, lk, rk) ==
    LET js == Ascending({j \in 1..Len(rrows) : rrows[j][rk] = lrow[lk]})
    IN  [x \in 1..Len(js) |-> rrows[js[x]]]

\* the rows of an inner join: the left rows without a match are dropped
InnerJoinRows(lrows, rrows, lk, rk, cut, width) ==
    LET part(row) == IF cut THEN Without(row, rk) ELSE row
        rowsFor(lrow) ==
            LET hits == Matches(lrow, rrows, lk, rk)
            IN  [j \in 1..Len(hits) |-> lrow \o part(hits[j])]
    IN  Concat([i \in 1..Len(lrows) |-> rowsFor(lrows[i])])

\* the rows of a left join: each left row, in order, once per right row of
\* equal key, and once with missing right cells when no right row has its key
LeftJoinRows(lrows, rrows, lk, rk, cut, width) ==
    LET part(row) == IF cut THEN Without(row, rk) ELSE row
        blank == [i \in 1..width |-> NA]
        rowsFor(lrow) ==
            LET hits == Matches(lrow, rrows, lk, rk)
            IN  IF hits = <<>> THEN <<lrow \o blank>>
                ELSE [j \in 1..Len(hits) |-> lrow \o part(hits[j])]
    IN  Concat([i \in 1..Len(lrows) |-> rowsFor(lrows[i])])

\* l.merge(r, left_on=lkey, right_on=rkey, how="left", suffixes=(lsuf, rsuf));
\* with lkey = rkey this is on=lkey, and the key column appears once.  A label
\* both tables carry (the key of on= apart) takes its side's suffix.
merge(l, r, lkey, rkey, lsuf, rsuf) ==
    LET cut == lkey = rkey
        lk == ColIdx(l, lkey)
        rk == ColIdx(r, rkey)
        both(c) == HasCol(l, c) /\ HasCol(r, c) /\ ~(cut /\ c = lkey)
        lcols == [i \in 1..Len(l.cols) |->
                    IF both(l.cols[i]) THEN l.cols[i] \o lsuf ELSE l.cols[i]]
        rcols == [i \in 1..Len(r.cols) |->
                    IF both(r.cols[i]) THEN r.cols[i] \o rsuf ELSE r.cols[i]]
    IN  [cols |-> lcols \o (IF cut THEN Without(rcols, rk) ELSE rcols),
         dtype |-> l.dtype \o (IF cut THEN Without(r.dtype, rk) ELSE r.dtype),
         rows |-> LeftJoinRows(l.rows, r.rows, lk, rk, cut,
                               IF cut THEN Len(r.cols) - 1 ELSE Len(r.cols))]

(***************************************************************************)
(* unify_data, as [err, res].  A merge on a label its table carries twice  *)
(* raises ValueError (the label is not unique).                            *)
(***************************************************************************)
\* DataFrame.empty
empty(t) == t.cols = <<>> \/ t.rows = <<>>

WithReviews(l, summary) ==
    IF ~empty(summary) /\ HasCol(l, "id")
    THEN merge(l, summary, "id", "listing_id", "_x", "_y")
    ELSE l

unify_data(l, rv, n) ==
    LET norm == _normalize_neighbourhoods(l, n)
        reviews_summary == _prepare_reviews(rv)
        joined == WithReviews(norm.listings_norm, reviews_summary)
        ref == norm.neighbourhoods_norm
    IN  IF HasCol(joined, "neighbourhood") /\ HasCol(ref, "neighbourhood")
        THEN IF \/ Cardinality(Positions(joined, "neighbourhood")) > 1
                \/ Cardinality(Positions(ref, "neighbourhood")) > 1
             THEN [err |-> "ValueError", res |-> Idle]
             ELSE [err |-> "", res |-> merge(joined, ref, "neighbourhood", "neighbourhood", "", "_ref")]
        ELSE [err |-> "", res |-> joined]

(***************************************************************************)
(* unify_data called on a listings, a reviews and a neighbourhoods table   *)
(* (the fourth table, idealista, is not read).                             *)
(***************************************************************************)
Centro == Str(<<"C", "e", "n", "t", "r", "o">>)

Retiro == Str(<<"R", "e", "t", "i", "r", "o">>)

ListingId == Kind("id", "int64", {IntCell(1), IntCell(2)})

ListingInput(t) ==
    \E n \in 0..MaxListingRows :
       \/ OneColumn(t, ListingId, n)
       \/ OneColumn(t, Kind("neighbourhood", "object", {Centro, Retiro}), n)
       \/ TwoColumns(t, ListingId, Kind("neighbourhood", "object", {Centro, Retiro}), n)
       \/ TwoColumns(t, ListingId, Kind("neighbourhood_cleansed", "object", {Centro, NA}), n)
       \/ TwoColumns(t, ListingId, Kind("rating", "float64", {IntCell(5)}), n)
       \/ TwoColumns(t, Kind("neighbourhood", "object", {Centro}),
                     Kind("neighbourhood_cleansed", "object", {Centro, Retiro}), n)

JoinReviewInput(t) ==
    \/ \E n \in 0..MaxJoinReviewRows :
          TwoColumns(t, Kind("listing_id", "float64", {IntCell(1), IntCell(3), NA}),
                     Kind("rating", "float64", {IntCell(4)}), n)
    \/ OneColumn(t, Kind("listing_id", "int64", {IntCell(1)}), 1)

NeighbourhoodInput(t) ==
    \E n \in 0..MaxNeighbourhoodRows :
       \/ TwoColumns(t, Kind("neighbourhood_group", "object", {Str(<<"G">>)}),
                     Kind("neighbourhood", "object", {Centro, NA}), n)
       \/ OneColumn(t, Kind("neighbourhood_group", "object", {Str(<<"G">>)}), n)

InitUnify ==
    /\ pc = "start"
    /\ ListingInput(listings)
    /\ JoinReviewInput(reviews)
    /\ NeighbourhoodInput(neighbourhoods)
    /\ df = Idle /\ level = ""
    /\ out = Idle /\ out2 = Idle
    /\ err = ""

Unify ==
    /\ pc = "start"
    /\ LET o == unify_data(listings, reviews, neighbourhoods)
       IN  /\ err' = o.err
           /\ out' = o.res
    /\ pc' = "unified"
    /\ UNCHANGED <<df, level, listings, reviews, neighbourhoods, out2>>

NextUnify == Unify

SpecUnify == InitUnify /\ [][NextUnify]_vars

Unified == pc = "unified" /\ err = ""

\* the listing ids the reviews table has ratings rows for
ReviewedIds ==
    IF HasCol(reviews, "listing_id")
    THEN {Column(reviews, "listing_id")[r] : r \in 1..NRows(reviews)} \ {NA}
    ELSE {}

\* the review join is made: there is a summary with rows, and listings has ids
ReviewsJoined ==
    /\ HasCol(listings, "id")
    /\ HasCol(reviews, "listing_id") /\ HasCol(reviews, "rating")
    /\ ReviewedIds # {}

\* the neighbourhood join is made
NeighbourhoodsJoined ==
    /\ HasCol(listings, "neighbourhood") \/ HasCol(listings, "neighbourhood_cleansed")
    /\ HasCol(neighbourhoods, "neighbourhood")

\* the cells of the listing the result's row r was made from
ListingPart(r) == SubSeq(out.rows[r], 1, Len(listings.cols))

NamesDistinct ==
    HasCol(neighbourhoods, "neighbourhood") =>
        \A i, j \in 1..NRows(neighbourhoods) :
           i # j => Column(neighbourhoods, "neighbourhood")[i]
                      # Column(neighbourhoods, "neighbourhood")[j]

====
